---- MODULE Spec2Model ----
(***************************************************************************)
(* Model of src-tauri/src/utils/privileges.rs: the two free functions      *)
(* check_admin_privileges and request_admin_privileges, their four         *)
(* cfg(target_os) implementations, and the part of the operating system    *)
(* they talk to (IsUserAnAdmin, ShellExecuteW, the spawned process).       *)
(***************************************************************************)
EXTENDS Integers, Sequences, FiniteSets, TLC

\* ------------------------------------------------------------------ bounds
MaxLen == 2      \* longest exe_path, in characters
MaxCalls == 2    \* calls of each of the two functions in one run

\* ------------------------------------------------ build targets and inputs
\* A sample of the values of target_os (and of std::env::consts::OS).
TargetOSes == {"windows", "macos", "linux", "freebsd", "android", "ios"}

\* Characters a &str can hold: U+0000, 'A', and U+1F600 (outside the BMP).
Chars == {0, 65, 128512}

Paths == UNION {[1..n -> Chars] : n \in 0..MaxLen}

\* Files present on disk, by the name the OS resolves.
ExistingFiles == {<<65>>, <<65, 128512>>}

VARIABLES
    targetOS,     \* the target_os the crate was compiled for
    isAdmin,      \* the process token is elevated
    pc,           \* position of the caller: "idle", "called", "answered"
    exe_path,     \* argument of the current / last request_admin_privileges
    launch,       \* the arguments of the last ShellExecuteW call
    outcome,      \* what ShellExecuteW answered to the last launch request
    child,        \* the process the last accepted launch request stands for
    lastCheck,    \* result of the last check_admin_privileges
    firstCheck,   \* result of the first check_admin_privileges
    lastRequest,  \* result of the last request_admin_privileges
    nChecks,      \* calls of check_admin_privileges so far
    nRequests,    \* calls of request_admin_privileges so far
    nLaunches,    \* ShellExecuteW calls so far
    nSpawned      \* processes started by the OS so far

vars == <<targetOS, isAdmin, pc, exe_path, launch, outcome, child, lastCheck,
          firstCheck, lastRequest, nChecks, nRequests, nLaunches, nSpawned>>

\* ------------------------------------------------------- Result<bool,String>
Ok(b) == [kind |-> "Ok", val |-> b]
Err(m) == [kind |-> "Err", msg |-> m]
NoResult == [kind |-> "None"]

\* --------------------------------------------------------- cfg(target_os)
cfg_windows(os) == os = "windows"
cfg_macos(os) == os = "macos"
cfg_linux(os) == os = "linux"
cfg_other_loose(os) == ~(os = "windows" \/ os = "macos")
cfg_other(os) == ~(os = "windows" \/ os = "macos" \/ os = "linux")

\* The implementations of one function that the build of `os` compiles in.
ActiveImpls(os) ==
    {i \in {"windows", "macos", "linux", "other"} :
        \/ i = "windows" /\ cfg_windows(os)
        \/ i = "macos" /\ cfg_macos(os)
        \/ i = "linux" /\ cfg_linux(os)
        \/ i = "other" /\ cfg_other(os)}

\* std::env::consts::OS of a build for `os`.
consts_OS(os) == os

\* format!("不支持的操作系统: {}", os): the literal piece (written in ASCII
\* here), then the argument.
format_unsupported_no_os(os) == <<"unsupported-os-prefix: ">>
format_unsupported(os) == <<"unsupported-os-prefix: ", os>>

Contains(msg, piece) == \E i \in 1..Len(msg) : msg[i] = piece

\* ------------------------------------------------------------- UTF-16 text
\* OsStr::new(s).encode_wide(): the UTF-16 code units of s.
RECURSIVE encode_wide(_)
encode_wide(s) ==
    IF s = <<>> THEN <<>>
    ELSE LET c == Head(s)
             u == IF c < 65536 THEN <<c>>
                  ELSE <<55296 + ((c - 65536) \div 1024),
                         56320 + ((c - 65536) % 1024)>>
         IN u \o encode_wide(Tail(s))

\* .chain(Some(0)).collect(): the buffer with its terminating NUL.
WideBuffer(s) == Append(encode_wide(s), 0)

\* What the OS reads through a PCWSTR: the units before the first NUL.
RECURSIVE ReadPCWSTR(_)
ReadPCWSTR(buf) ==
    IF buf = <<>> \/ Head(buf) = 0 THEN <<>>
    ELSE <<Head(buf)>> \o ReadPCWSTR(Tail(buf))

\* The characters a sequence of UTF-16 code units stands for.
RECURSIVE decode_utf16(_)
decode_utf16(u) ==
    IF u = <<>> THEN <<>>
    ELSE IF Head(u) >= 55296 /\ Head(u) < 56320 /\ Len(u) >= 2
         THEN <<65536 + (Head(u) - 55296) * 1024 + (u[2] - 56320)>>
              \o decode_utf16(Tail(Tail(u)))
         ELSE <<Head(u)>> \o decode_utf16(Tail(u))

runas == <<114, 117, 110, 97, 115>>

PCWSTR(buf) == [null |-> FALSE, buf |-> buf]
PCWSTR_null == [null |-> TRUE, buf |-> <<>>]
NoLaunch == [made |-> FALSE]

\* The arguments of the ShellExecuteW call of request_admin_privileges.
ShellExecuteArgs(path) ==
    [made |-> TRUE,
     hwnd |-> 0,
     operation |-> PCWSTR(WideBuffer(runas)),
     file |-> PCWSTR(WideBuffer(path)),
     parameters |-> PCWSTR_null,
     directory |-> PCWSTR_null,
     show |-> 1]

\* The file name the OS acts on.
FileSeen(l) == decode_utf16(ReadPCWSTR(l.file.buf))

\* ------------------------------------------------------- the OS's answers
\* Return values of ShellExecuteW: above 32 on success, an error code else.
ShellOutcomes ==
    {[name |-> "out_of_memory", code |-> 0, success |-> FALSE],
     [name |-> "file_not_found", code |-> 2, success |-> FALSE],
     [name |-> "path_not_found", code |-> 3, success |-> FALSE],
     [name |-> "access_denied", code |-> 5, success |-> FALSE],
     [name |-> "no_association", code |-> 31, success |-> FALSE],
     [name |-> "dll_not_found", code |-> 32, success |-> FALSE],
     [name |-> "launched", code |-> 33, success |-> TRUE],
     [name |-> "launched", code |-> 42, success |-> TRUE]}

NoOutcome == [name |-> "none", code |-> 0, success |-> FALSE]

\* The answers the OS can give to a launch request.
OutcomesFor(l) ==
    IF FileSeen(l) \in ExistingFiles
    THEN ShellOutcomes
    ELSE {o \in ShellOutcomes : o.name \in {"file_not_found", "path_not_found"}}

\* IsUserAnAdmin(): a BOOL (i32), nonzero for an elevated token.
IsUserAnAdmin(admin) == IF admin THEN 1 ELSE 0

\* BOOL::as_bool
as_bool(b) == b # 0

\* ------------------------------------------------ the functions' results
check_admin_privileges_windows_never(admin) == Ok(FALSE)
check_admin_privileges_windows_sticky(admin) ==
    Ok(as_bool(IsUserAnAdmin(admin)) \/ nSpawned > 0)
check_admin_privileges_windows(admin) == Ok(as_bool(IsUserAnAdmin(admin)))

check_admin_privileges_macos_euid == Ok(isAdmin)
check_admin_privileges_macos == Ok(FALSE)
check_admin_privileges_linux == Ok(FALSE)
check_admin_privileges_other(os) == Err(format_unsupported(consts_OS(os)))

request_result_windows_ge(code) == IF code >= 32 THEN Ok(TRUE) ELSE Ok(FALSE)
request_result_windows(code) == IF code > 32 THEN Ok(TRUE) ELSE Ok(FALSE)
request_admin_privileges_macos(path) == Ok(FALSE)
request_admin_privileges_linux(path) == Ok(FALSE)
request_admin_privileges_other(path, os) ==
    Err(format_unsupported(consts_OS(os)))

\* ------------------------------------------------------------------- Init
Init ==
    /\ targetOS \in TargetOSes
    /\ isAdmin \in BOOLEAN
    /\ pc = "idle"
    /\ exe_path = <<>>
    /\ launch = NoLaunch
    /\ outcome = NoOutcome
    /\ child = "none"
    /\ lastCheck = NoResult
    /\ firstCheck = NoResult
    /\ lastRequest = NoResult
    /\ nChecks = 0
    /\ nRequests = 0
    /\ nLaunches = 0
    /\ nSpawned = 0

\* ------------------------------------------------- check_admin_privileges
Checked(r) ==
    /\ pc = "idle"
    /\ nChecks < MaxCalls
    /\ lastCheck' = r
    /\ firstCheck' = IF firstCheck = NoResult THEN r ELSE firstCheck
    /\ nChecks' = nChecks + 1
    /\ UNCHANGED <<targetOS, isAdmin, pc, exe_path, launch, outcome, child,
                   lastRequest, nRequests, nLaunches, nSpawned>>

CheckWindows ==
    /\ cfg_windows(targetOS)
    /\ Checked(check_admin_privileges_windows(isAdmin))

CheckMacos ==
    /\ cfg_macos(targetOS)
    /\ Checked(check_admin_privileges_macos)

CheckLinux ==
    /\ cfg_linux(targetOS)
    /\ Checked(check_admin_privileges_linux)

CheckOther ==
    /\ cfg_other(targetOS)
    /\ Checked(check_admin_privileges_other(targetOS))

\* ----------------------------------------------- request_admin_privileges
\* The stub implementations: the whole call is one step.
Requested(path, r) ==
    /\ pc = "idle"
    /\ nRequests < MaxCalls
    /\ exe_path' = path
    /\ lastRequest' = r
    /\ nRequests' = nRequests + 1
    /\ UNCHANGED <<targetOS, isAdmin, pc, launch, outcome, child, lastCheck,
                   firstCheck, nChecks, nLaunches, nSpawned>>

RequestMacosLaunching ==
    /\ cfg_macos(targetOS)
    /\ pc = "idle"
    /\ nRequests < MaxCalls
    /\ \E path \in Paths :
        /\ exe_path' = path
        /\ launch' = ShellExecuteArgs(path)
        /\ lastRequest' = request_admin_privileges_macos(path)
    /\ nRequests' = nRequests + 1
    /\ nLaunches' = nLaunches + 1
    /\ UNCHANGED <<targetOS, isAdmin, pc, outcome, child, lastCheck,
                   firstCheck, nChecks, nSpawned>>

RequestMacos ==
    /\ cfg_macos(targetOS)
    /\ \E path \in Paths : Requested(path, request_admin_privileges_macos(path))

RequestLinux ==
    /\ cfg_linux(targetOS)
    /\ \E path \in Paths : Requested(path, request_admin_privileges_linux(path))

RequestOther ==
    /\ cfg_other(targetOS)
    /\ \E path \in Paths :
        Requested(path, request_admin_privileges_other(path, targetOS))

\* Windows: encode the two strings and call ShellExecuteW.
RequestCallWindows ==
    /\ cfg_windows(targetOS)
    /\ pc = "idle"
    /\ nRequests < MaxCalls
    /\ \E path \in Paths :
        /\ exe_path' = path
        /\ launch' = ShellExecuteArgs(path)
    /\ nRequests' = nRequests + 1
    /\ nLaunches' = nLaunches + 1
    /\ pc' = "called"
    /\ outcome' = NoOutcome
    /\ lastRequest' = NoResult
    /\ UNCHANGED <<targetOS, isAdmin, child, lastCheck, firstCheck, nChecks,
                   nSpawned>>

\* The OS answers the launch request.  On success the new process is either
\* already running or still behind its elevation prompt.
ShellExecuteAnswer ==
    /\ pc = "called"
    /\ \E o \in OutcomesFor(launch) :
        /\ outcome' = o
        /\ IF o.success
           THEN \E c \in {"prompt", "running"} :
                    /\ child' = c
                    /\ nSpawned' = IF c = "running" THEN nSpawned + 1
                                   ELSE nSpawned
           ELSE UNCHANGED <<child, nSpawned>>
    /\ pc' = "answered"
    /\ UNCHANGED <<targetOS, isAdmin, exe_path, launch, lastCheck, firstCheck,
                   lastRequest, nChecks, nRequests, nLaunches>>

\* Variants of the last step: one that waits for the spawned process, one
\* that launches a second time after a failure.
RequestReturnWindowsWaiting ==
    /\ pc = "answered"
    /\ child \notin {"prompt", "running"}
    /\ lastRequest' = request_result_windows(outcome.code)
    /\ pc' = "idle"
    /\ UNCHANGED <<targetOS, isAdmin, exe_path, launch, outcome, child,
                   lastCheck, firstCheck, nChecks, nRequests, nLaunches,
                   nSpawned>>

RequestReturnWindowsRetrying ==
    /\ pc = "answered"
    /\ IF outcome.code <= 32 /\ nLaunches = nRequests
       THEN /\ pc' = "called"
            /\ nLaunches' = nLaunches + 1
            /\ UNCHANGED lastRequest
       ELSE /\ pc' = "idle"
            /\ lastRequest' = request_result_windows(outcome.code)
            /\ UNCHANGED nLaunches
    /\ UNCHANGED <<targetOS, isAdmin, exe_path, launch, outcome, child,
                   lastCheck, firstCheck, nChecks, nRequests, nSpawned>>

\* Windows: ShellExecuteW has returned; map its value to the result.
RequestReturnWindows ==
    /\ pc = "answered"
    /\ lastRequest' = request_result_windows(outcome.code)
    /\ pc' = "idle"
    /\ UNCHANGED <<targetOS, isAdmin, exe_path, launch, outcome, child,
                   lastCheck, firstCheck, nChecks, nRequests, nLaunches,
                   nSpawned>>

\* ------------------------------------------------------- the environment
\* The user answers the elevation prompt of the spawned process.
PromptResolved ==
    /\ child = "prompt"
    /\ \E c \in {"running", "declined"} :
        /\ child' = c
        /\ nSpawned' = IF c = "running" THEN nSpawned + 1 ELSE nSpawned
    /\ UNCHANGED <<targetOS, isAdmin, pc, exe_path, launch, outcome,
                   lastCheck, firstCheck, lastRequest, nChecks, nRequests,
                   nLaunches>>

\* The spawned process exits.
ChildExit ==
    /\ child = "running"
    /\ child' = "exited"
    /\ UNCHANGED <<targetOS, isAdmin, pc, exe_path, launch, outcome,
                   lastCheck, firstCheck, lastRequest, nChecks, nRequests,
                   nLaunches, nSpawned>>

Next ==
    \/ CheckWindows
    \/ CheckMacos
    \/ CheckLinux
    \/ CheckOther
    \/ RequestCallWindows
    \/ ShellExecuteAnswer
    \/ RequestReturnWindows
    \/ RequestMacos
    \/ RequestLinux
    \/ RequestOther
    \/ PromptResolved
    \/ ChildExit

Spec == Init /\ [][Next]_vars

\* The OS answers every ShellExecuteW call and the caller then runs on;
\* nothing obliges the user or the spawned process to do anything.
FairSpec ==
    Spec /\ WF_vars(ShellExecuteAnswer) /\ WF_vars(RequestReturnWindows)

\* ------------------------------------------------------------- properties
OnWindows == targetOS = "windows"
OnStub == targetOS \in {"macos", "linux"}
OnUnrecognized == targetOS \notin {"windows", "macos", "linux"}
NulFree(path) == \A i \in 1..Len(path) : path[i] # 0

\* C1: on the macOS and Linux builds every check_admin_privileges returns
\* Ok(false), whatever the privilege level of the process and however many
\* calls came before.
C1_StubCheckIsOkFalse ==
    OnStub =>
        /\ lastCheck # NoResult => lastCheck = Ok(FALSE)
        /\ firstCheck # NoResult => firstCheck = Ok(FALSE)

C1_Witness ==
    /\ targetOS = "macos"
    /\ isAdmin
    /\ nChecks >= 2
    /\ lastCheck = Ok(FALSE)

\* C2: on a build for any other target OS both functions return an Err
\* whose message contains std::env::consts::OS, never an Ok.
C2_UnrecognizedIsErrNamingOS ==
    OnUnrecognized =>
        /\ lastCheck # NoResult =>
            /\ lastCheck.kind = "Err"
            /\ Contains(lastCheck.msg, consts_OS(targetOS))
        /\ lastRequest # NoResult =>
            /\ lastRequest.kind = "Err"
            /\ Contains(lastRequest.msg, consts_OS(targetOS))

C2_Witness ==
    /\ targetOS = "freebsd"
    /\ lastCheck.kind = "Err"
    /\ lastRequest.kind = "Err"
    /\ exe_path = <<65>>

\* C3: on Windows request_admin_privileges returns Ok(true) when the OS
\* reports a successful launch and Ok(false) for every other answer; it
\* never returns Err.
C3_RequestFollowsLaunchSuccess ==
    (OnWindows /\ pc = "idle" /\ nRequests > 0) =>
        lastRequest = Ok(outcome.success)

C3_Witness ==
    /\ OnWindows
    /\ pc = "idle"
    /\ outcome.name = "dll_not_found"
    /\ lastRequest = Ok(FALSE)

\* C4: on Windows check_admin_privileges returns Ok(b), b being true
\* exactly when the process is elevated.
C4_CheckReportsElevation ==
    (OnWindows /\ lastCheck # NoResult) => lastCheck = Ok(isAdmin)

C4_Witness ==
    /\ OnWindows
    /\ isAdmin
    /\ lastCheck = Ok(TRUE)

\* C5: a call of request_admin_privileges returns once the OS has answered
\* the launch request, whether or not the elevation prompt is resolved or
\* the spawned process has exited; for a valid path of a file that does not
\* exist the Windows result is Ok(false).
C5_RequestReturns ==
    /\ (pc # "idle") ~> (pc = "idle")
    /\ [](  (/\ OnWindows
             /\ pc = "idle"
             /\ nRequests > 0
             /\ NulFree(exe_path)
             /\ exe_path \notin ExistingFiles)
          => lastRequest = Ok(FALSE))

C5_Witness ==
    /\ OnWindows
    /\ pc = "idle"
    /\ child = "prompt"
    /\ exe_path = <<128512>>
    /\ lastRequest = Ok(FALSE)

\* C6: every check_admin_privileges returns what the first one returned,
\* whatever request_admin_privileges calls happen in between.
C6_CheckIdempotent ==
    lastCheck # NoResult => lastCheck = firstCheck

C6_Witness ==
    /\ OnWindows
    /\ nChecks >= 2
    /\ nSpawned > 0
    /\ ~isAdmin
    /\ lastCheck = Ok(FALSE)

\* C7: on the macOS and Linux builds request_admin_privileges returns
\* Ok(false) for every path and issues no launch request, spawns no process
\* and shows no prompt.
C7_StubRequestDoesNothing ==
    OnStub =>
        /\ lastRequest # NoResult => lastRequest = Ok(FALSE)
        /\ nLaunches = 0
        /\ launch = NoLaunch
        /\ nSpawned = 0
        /\ child = "none"

C7_Witness ==
    /\ targetOS = "macos"
    /\ nRequests >= 2
    /\ exe_path = <<65>>
    /\ lastRequest = Ok(FALSE)

\* C8: for every target OS exactly one of the four implementations of each
\* function is compiled in.
C8_ExactlyOneImpl ==
    Cardinality(ActiveImpls(targetOS)) = 1

C8_Witness ==
    /\ targetOS = "linux"
    /\ ActiveImpls(targetOS) = {"linux"}
    /\ nChecks > 0
    /\ nRequests > 0

\* C9: on Windows the launch request is: verb "runas", the file the OS
\* reads is the whole of exe_path, no arguments, no working directory, no
\* owner window, show command 1.
C9_LaunchIsForGivenPath ==
    (OnWindows /\ launch # NoLaunch) =>
        /\ launch.hwnd = 0
        /\ ~launch.operation.null
        /\ decode_utf16(ReadPCWSTR(launch.operation.buf)) = runas
        /\ ~launch.file.null
        /\ FileSeen(launch) = exe_path
        /\ launch.parameters.null
        /\ launch.directory.null
        /\ launch.show = 1

\* C10: one Windows call of request_admin_privileges issues exactly one
\* launch request, also after a failure, so at most one process is spawned
\* per call; check_admin_privileges issues none on any platform.
C10_OneLaunchPerCall ==
    /\ [](nLaunches = IF OnWindows THEN nRequests ELSE 0)
    /\ [](nSpawned <= nLaunches)
    /\ [][nChecks' # nChecks =>
            UNCHANGED <<nLaunches, nSpawned, launch, child>>]_vars

C10_Witness ==
    /\ OnWindows
    /\ pc = "idle"
    /\ nRequests = 1
    /\ nLaunches = 1
    /\ outcome.name = "access_denied"
    /\ lastRequest = Ok(FALSE)

====
